---- MODULE Spec2Model ----
(***************************************************************************)
(* dtslint command line harness (packages/dtslint/src/index.ts).           *)
(*                                                                         *)
(* main() either runs runTests once for a package directory, or (with      *)
(* --listen) answers { path } messages with { path, status } replies.      *)
(* runTests plans the TypeScript version ranges of a package from its      *)
(* minimumTypeScriptVersion and its ts<version> directories, issues one    *)
(* testTypesVersion per range and finally reconciles the                   *)
(* @arethetypeswrong/cli outcome with the failingPackages list.            *)
(*                                                                         *)
(* A version "M.m" is the pair <<M, m>>; undefined is <<>>; the sentinel   *)
(* "local" is <<"local">>.  parseFloat maps a version to tenths.           *)
(***************************************************************************)
EXTENDS Integers, Sequences, FiniteSets, TLC

VARIABLES
  pc,            \* position of main / runTests
  args,          \* parsed command line: shouldListen, tsLocal, onlyTestTsNext
  install,       \* state of the installTypeScriptAsNeeded promise
  packageJson,   \* minimumTypeScriptVersion and nonNpm of the package
  typesVersions, \* getTypesVersions(dirPath): the ts<version> cutoffs
  minVersion,    \* runTests' minVersion (line 149)
  lows,          \* runTests' lows (line 158)
  his,           \* runTests' his (line 159)
  i,             \* loop index of the range loop (1-based)
  checks,        \* testTypesVersion calls issued so far, in order
  nextCalls,     \* number of next(v) lookups evaluated
  asserts,       \* number of hi >= low assertions evaluated
  attw,          \* expectError and status seen by the attw switch
  result,        \* how runTests settled
  msg,           \* listen mode: state of the handler of each message
  runResult,     \* listen mode: how the run of each message settled
  sent           \* listen mode: replies passed to process.send, in order

vars == <<pc, args, install, packageJson, typesVersions, minVersion, lows, his,
          i, checks, nextCalls, asserts, attw, result, msg, runResult, sent>>

runVars == <<packageJson, typesVersions, minVersion, lows, his, i, checks,
             nextCalls, asserts, attw, result>>

listenVars == <<msg, runResult, sent>>

----------------------------------------------------------------------------
(* Bounds *)

NumSupported == 4     \* length of TypeScriptVersion.supported
MaxCutoffs == 2       \* most ts<version> directories of a package
MaxMessages == 2      \* messages received in listen mode

----------------------------------------------------------------------------
(* Versions *)

undefined == <<>>
local == <<"local">>
NaN == -1

\* The first catalogue version, in tenths: "4.7" is no longer supported,
\* "4.8" is the lowest supported one.
FirstVersion == 47

Version(n) == <<n \div 10, n % 10>>

\* TypeScriptVersion.supported, oldest first.
supported == [k \in 1..NumSupported |-> Version(FirstVersion + k)]

\* AllTypeScriptVersion: the supported versions and an older, unsupported one.
AllTypeScriptVersion == {Version(FirstVersion)} \cup {supported[k] : k \in 1..NumSupported}

lowest == supported[1]
latest == supported[Len(supported)]

\* parseFloat of a version string, in tenths; parseFloat(undefined) is NaN.
parseFloat(v) == IF Len(v) = 2 THEN 10 * v[1] + v[2] ELSE NaN

\* a >= b on numbers: false as soon as one side is NaN.
GreaterEq(a, b) == a # NaN /\ b # NaN /\ a >= b

\* Array.prototype.indexOf on TypeScriptVersion.supported: 0-based, -1 if absent.
indexOf(v) ==
  IF \E k \in 1..Len(supported) : supported[k] = v
    THEN (CHOOSE k \in 1..Len(supported) : supported[k] = v) - 1
    ELSE -1

\* supported[index] with a 0-based index; out of range reads undefined.
supportedAt(index) ==
  IF index + 1 \in 1..Len(supported) THEN supported[index + 1] ELSE undefined

\* maxVersion with the comparison turned around: the earlier version wins.
maxVersion_earlier(v1, v2) ==
  IF GreaterEq(parseFloat(v2), parseFloat(v1)) THEN v1 ELSE v2

maxVersion(v1, v2) ==
  IF GreaterEq(parseFloat(v1), parseFloat(v2)) THEN v1 ELSE v2

\* next without the step to the following entry: supported[index].
next_same(v) ==
  LET index == indexOf(v)
  IN  IF index = -1 THEN [ok |-> FALSE, value |-> undefined]
      ELSE IF ~(index < Len(supported)) THEN [ok |-> FALSE, value |-> undefined]
      ELSE [ok |-> TRUE, value |-> supportedAt(index)]

\* next(v): ok = FALSE when one of the two assertions fails.
next(v) ==
  LET index == indexOf(v)
  IN  IF index = -1 THEN [ok |-> FALSE, value |-> undefined]
      ELSE IF ~(index < Len(supported)) THEN [ok |-> FALSE, value |-> undefined]
      ELSE [ok |-> TRUE, value |-> supportedAt(index + 1)]

\* The strictly increasing cutoff lists a package can have.
CutoffLists ==
  {s \in UNION {[1..n -> {supported[k] : k \in 1..NumSupported}] : n \in 0..MaxCutoffs} :
     \A j \in 1..(Len(s) - 1) : parseFloat(s[j]) < parseFloat(s[j + 1])}

----------------------------------------------------------------------------
(* Values of runTests *)

dirPath == <<"types/pkg">>
dirName == "pkg"
output == "attw-output"

NoResult == [kind |-> "none"]
Return(value) == [kind |-> "return", value |-> value]
Throw(error) == [kind |-> "throw", error |-> error]

Error(parts) == [name |-> "Error", parts |-> parts]
AssertionError(min, hi) ==
  [name |-> "AssertionError", min |-> min, skips |-> [ts |-> hi]]
NextAssertionError == [name |-> "AssertionError", in |-> "next"]

NoPackageJson == [minimumTypeScriptVersion |-> undefined, nonNpm |-> FALSE]
NoAttw == [expectError |-> "none", status |-> "none"]

----------------------------------------------------------------------------
(* main and installTypeScriptAsNeeded *)

Init ==
  /\ pc = "main"
  /\ args = [shouldListen |-> FALSE, tsLocal |-> FALSE, onlyTestTsNext |-> FALSE]
  /\ install = "none"
  /\ packageJson = NoPackageJson
  /\ typesVersions = <<>>
  /\ minVersion = undefined
  /\ lows = <<>>
  /\ his = <<>>
  /\ i = 0
  /\ checks = <<>>
  /\ nextCalls = 0
  /\ asserts = 0
  /\ attw = NoAttw
  /\ result = NoResult
  /\ msg = [p \in 1..MaxMessages |-> "unsent"]
  /\ runResult = [p \in 1..MaxMessages |-> "none"]
  /\ sent = <<>>

\* installTypeScriptAsNeeded: nothing to install with a local TypeScript,
\* otherwise the promise is pending until the installation settles.
installTypeScriptAsNeeded(tsLocal) == IF tsLocal THEN "resolved" ELSE "pending"

\* main: the argument loop, then listen(...) or the awaited installation.
main ==
  /\ pc = "main"
  /\ \E shouldListen \in BOOLEAN, tsLocal \in BOOLEAN, onlyTestTsNext \in BOOLEAN :
       /\ args' = [shouldListen |-> shouldListen, tsLocal |-> tsLocal,
                   onlyTestTsNext |-> onlyTestTsNext]
       /\ install' = installTypeScriptAsNeeded(tsLocal)
       /\ pc' = IF shouldListen THEN "listening" ELSE "install"
  /\ UNCHANGED <<runVars, listenVars>>

\* The installation promise settles.
installSettles ==
  /\ install = "pending"
  /\ install' \in {"resolved", "rejected"}
  /\ UNCHANGED <<pc, args, runVars, listenVars>>

\* main, line 82: await installTypeScriptAsNeeded(...), then runTests starts.
mainAwaitInstall ==
  /\ pc = "install"
  /\ install \in {"resolved", "rejected"}
  /\ IF install = "resolved"
       THEN pc' = "runTests" /\ UNCHANGED result
       ELSE pc' = "done" /\ result' = Throw(Error(<<"installation failed">>))
  /\ UNCHANGED <<args, install, packageJson, typesVersions, minVersion, lows, his,
                 i, checks, nextCalls, asserts, attw, listenVars>>

----------------------------------------------------------------------------
(* runTests *)

\* Lines 137-147 throw: not in DefinitelyTyped, banned or deprecated name,
\* package.json errors.
runTestsRejectsPackage ==
  /\ pc = "runTests"
  /\ pc' = "done"
  /\ result' = Throw(Error(<<"package rejected">>))
  /\ UNCHANGED <<args, install, packageJson, typesVersions, minVersion, lows, his,
                 i, checks, nextCalls, asserts, attw, listenVars>>

\* Lines 137-149: the package is accepted; typesVersions and packageJson are
\* read and minVersion is computed.
runTestsReadsPackage ==
  /\ pc = "runTests"
  /\ \E min \in AllTypeScriptVersion, cutoffs \in CutoffLists, nonNpm \in BOOLEAN :
       /\ typesVersions' = cutoffs
       /\ packageJson' = [minimumTypeScriptVersion |-> min, nonNpm |-> nonNpm]
       /\ minVersion' = maxVersion(min, lowest)
  /\ pc' = "versions"
  /\ UNCHANGED <<args, install, lows, his, i, checks, nextCalls, asserts, attw,
                 result, listenVars>>

\* Line 150 without the test of tsLocal.
singleVersion_onlyNext(onlyTestTsNext, tsLocal) == onlyTestTsNext

\* Line 150: only one version of TypeScript is tested.
singleVersion(onlyTestTsNext, tsLocal) == onlyTestTsNext \/ tsLocal

\* Line 151.
tsVersion(tsLocal) == IF tsLocal THEN local ELSE latest

\* One call of testTypesVersion(dirPath, lowVersion, hiVersion, _, tsLocal, isLatest).
Check(path, low, hi, tsLocal, isLatest) ==
  [dirPath |-> path, lowVersion |-> low, hiVersion |-> hi, tsLocal |-> tsLocal,
   isLatest |-> isLatest]

\* Lines 150-152: the single check at the package root.
runTestsSingleVersion ==
  /\ pc = "versions"
  /\ singleVersion(args.onlyTestTsNext, args.tsLocal)
  /\ checks' = Append(checks, Check(dirPath, tsVersion(args.tsLocal),
                                    tsVersion(args.tsLocal), args.tsLocal, TRUE))
  /\ pc' = "testing"
  /\ UNCHANGED <<args, install, packageJson, typesVersions, minVersion, lows, his,
                 i, nextCalls, asserts, attw, result, listenVars>>

\* typesVersions.map(next): the mapped array and the number of lookups made
\* until the first one that throws.
mapNext(vs) ==
  LET failing == {j \in 1..Len(vs) : ~next(vs[j]).ok}
      first == IF failing = {} THEN Len(vs) + 1
               ELSE CHOOSE j \in failing : \A k \in failing : j <= k
  IN  [ok |-> failing = {},
       calls |-> IF failing = {} THEN Len(vs) ELSE first,
       values |-> [j \in 1..Len(vs) |-> next(vs[j]).value]]

\* Lines 158-160: lows and his of the ranges.
runTestsPlansRanges ==
  /\ pc = "versions"
  /\ ~singleVersion(args.onlyTestTsNext, args.tsLocal)
  /\ LET mapped == mapNext(typesVersions)
     IN  /\ nextCalls' = nextCalls + mapped.calls
         /\ IF mapped.ok
              THEN /\ lows' = <<lowest>> \o mapped.values
                   /\ his' = typesVersions \o <<latest>>
                   /\ i' = 1
                   /\ pc' = "range"
                   /\ UNCHANGED result
              ELSE /\ pc' = "done"
                   /\ result' = Throw(NextAssertionError)
                   /\ UNCHANGED <<lows, his, i>>
  /\ UNCHANGED <<args, install, packageJson, typesVersions, minVersion, checks,
                 asserts, attw, listenVars>>

\* Lines 162-173 of one iteration: low and hi, the assertion, and the call of
\* testTypesVersion for the range.
runTestsRange ==
  /\ pc = "range"
  /\ LET low == maxVersion(minVersion, lows[i])
         hi == his[i]
         isLatest == hi = latest
         versionPath == IF isLatest THEN dirPath ELSE dirPath \o <<[ts |-> hi]>>
     IN  /\ asserts' = asserts + 1
         /\ IF GreaterEq(parseFloat(hi), parseFloat(low))
              THEN /\ checks' = Append(checks, Check(versionPath, low, hi, FALSE, isLatest))
                   /\ pc' = "testing"
                   /\ UNCHANGED result
              ELSE /\ pc' = "done"
                   /\ result' = Throw(AssertionError(minVersion, hi))
                   /\ UNCHANGED checks
  /\ UNCHANGED <<args, install, packageJson, typesVersions, minVersion, lows, his,
                 i, nextCalls, attw, listenVars>>

\* testTypesVersion returns: the loop goes on, or the attw step is reached.
testTypesVersionPasses ==
  /\ pc = "testing"
  /\ IF ~singleVersion(args.onlyTestTsNext, args.tsLocal) /\ i < Len(lows)
       THEN i' = i + 1 /\ pc' = "range"
       ELSE pc' = "attw" /\ UNCHANGED i
  /\ UNCHANGED <<args, install, packageJson, typesVersions, minVersion, lows, his,
                 checks, nextCalls, asserts, attw, result, listenVars>>

\* testTypesVersion throws: tsconfig errors or a lint error.
testTypesVersionThrows ==
  /\ pc = "testing"
  /\ \E why \in {"tsconfig errors", "lint error"} :
       result' = Throw(Error(<<why>>))
  /\ pc' = "done"
  /\ UNCHANGED <<args, install, packageJson, typesVersions, minVersion, lows, his,
                 i, checks, nextCalls, asserts, attw, listenVars>>

\* assertNever(status): always throws.
assertNever(member) == Throw(Error(<<"unreachable case", member>>))

\* Line 181: failingPackages?.includes(dirName).
includes(failingPackages, name) ==
  IF ~failingPackages.defined THEN "undefined"
  ELSE IF name \in failingPackages.names THEN "true" ELSE "false"

\* What attw.json can hold: no failingPackages entry, or a list of names.
FailingPackages ==
  {[defined |-> FALSE, names |-> {}],
   [defined |-> TRUE, names |-> {}],
   [defined |-> TRUE, names |-> {dirName}]}

\* What runAreTheTypesWrong can report; "other" is a status outside its type.
Status == {"pass", "fail", "error", "other"}

\* The switch with case "error" of an expected failure falling through to
\* case "fail", and an unexpected tool error let through.
attwSwitch_fallthrough(expectError, status) ==
  IF expectError = "true" THEN
    IF status \in {"error", "fail"} THEN
      Return(<<"Ignoring attw failure because", dirName,
               "is listed in 'failingPackages'.", "@arethetypeswrong/cli", output>>)
    ELSE IF status = "pass" THEN
      Throw(Error(<<"attw passed: remove", dirName,
                    "from 'failingPackages' in attw.json", output>>))
    ELSE assertNever(status)
  ELSE IF expectError = "false" THEN
    IF status = "fail" THEN Throw(Error(<<"!@arethetypeswrong/cli", output>>))
    ELSE Return(undefined)
  ELSE Return(undefined)

\* Lines 184-209: the switch over expectError and status, and the final return.
attwSwitch(expectError, status) ==
  IF expectError = "true" THEN
    IF status = "error" THEN Return(undefined)
    ELSE IF status = "fail" THEN
      Return(<<"Ignoring attw failure because", dirName,
               "is listed in 'failingPackages'.", "@arethetypeswrong/cli", output>>)
    ELSE IF status = "pass" THEN
      Throw(Error(<<"attw passed: remove", dirName,
                    "from 'failingPackages' in attw.json", output>>))
    ELSE assertNever(status)
  ELSE IF expectError = "false" THEN
    IF status \in {"error", "fail"} THEN Throw(Error(<<"!@arethetypeswrong/cli", output>>))
    ELSE IF status = "pass" THEN Return(undefined)
    ELSE Return(undefined)
  ELSE Return(undefined)

\* Lines 177-209 for an npm package.
runTestsAttw ==
  /\ pc = "attw"
  /\ ~packageJson.nonNpm
  /\ \E failingPackages \in FailingPackages, status \in Status :
       LET expectError == includes(failingPackages, dirName)
       IN  /\ attw' = [expectError |-> expectError, status |-> status]
           /\ result' = attwSwitch(expectError, status)
  /\ pc' = "done"
  /\ UNCHANGED <<args, install, packageJson, typesVersions, minVersion, lows, his,
                 i, checks, nextCalls, asserts, listenVars>>

\* Lines 177 and 209 for a nonNpm package: attw is not run.
runTestsNonNpm ==
  /\ pc = "attw"
  /\ packageJson.nonNpm
  /\ result' = Return(undefined)
  /\ pc' = "done"
  /\ UNCHANGED <<args, install, packageJson, typesVersions, minVersion, lows, his,
                 i, checks, nextCalls, asserts, attw, listenVars>>

----------------------------------------------------------------------------
(* listen *)

\* What a run of runTests can settle with in listen mode.
RunResults == {"fulfilled", "Error", "AssertionError"}

\* Lines 113-120: a message arrives; its handler awaits the installation.
onMessage(p) ==
  /\ pc = "listening"
  /\ msg[p] = "unsent"
  /\ msg' = [msg EXCEPT ![p] = "awaiting"]
  /\ UNCHANGED <<pc, args, install, runVars, runResult, sent>>

\* Whether the handler goes past `await installationPromise` and calls runTests.
awaited(installation) == installation = "resolved"

\* Lines 120-121: the installation settled; runTests is called, or the
\* handler rejects with the installation error and nothing is sent.
afterInstallation(p) ==
  /\ msg[p] = "awaiting"
  /\ install # "pending"
  /\ msg' = [msg EXCEPT ![p] = IF awaited(install) THEN "running" ELSE "rejected"]
  /\ UNCHANGED <<pc, args, install, runVars, runResult, sent>>

\* The run of message p settles.
runSettles(p) ==
  /\ msg[p] = "running"
  /\ \E r \in RunResults : runResult' = [runResult EXCEPT ![p] = r]
  /\ msg' = [msg EXCEPT ![p] = "settled"]
  /\ UNCHANGED <<pc, args, install, runVars, sent>>

\* Both handlers of the promise of the run sending "OK".
replyStatus_alwaysOK(results, p) == "OK"

\* Lines 123-124: the status of the reply for message p.
replyStatus(results, p) == IF results[p] = "fulfilled" THEN "OK" ELSE results[p]

\* Lines 122-125: process.send({ path, status }).
reply(p) ==
  /\ msg[p] = "settled"
  /\ sent' = Append(sent, [path |-> p, status |-> replyStatus(runResult, p)])
  /\ msg' = [msg EXCEPT ![p] = "replied"]
  /\ UNCHANGED <<pc, args, install, runVars, runResult>>

----------------------------------------------------------------------------
(* Specifications *)

Next ==
  \/ main
  \/ installSettles
  \/ mainAwaitInstall
  \/ runTestsRejectsPackage
  \/ runTestsReadsPackage
  \/ runTestsSingleVersion
  \/ runTestsPlansRanges
  \/ runTestsRange
  \/ testTypesVersionPasses
  \/ testTypesVersionThrows
  \/ runTestsAttw
  \/ runTestsNonNpm
  \/ \E p \in 1..MaxMessages : onMessage(p)
  \/ \E p \in 1..MaxMessages : afterInstallation(p)
  \/ \E p \in 1..MaxMessages : runSettles(p)
  \/ \E p \in 1..MaxMessages : reply(p)

Spec == Init /\ [][Next]_vars

\* The event loop runs every continuation that is ready; installation and
\* runs settle.  The arrival of messages is up to the sender.
FairSpec ==
  /\ Spec
  /\ WF_vars(installSettles)
  /\ \A p \in 1..MaxMessages :
       /\ WF_vars(afterInstallation(p))
       /\ WF_vars(runSettles(p))
       /\ WF_vars(reply(p))

----------------------------------------------------------------------------
(* Vocabulary of the properties *)

\* The numeric value of a catalogue version, in tenths.
Num(v) == 10 * v[1] + v[2]

SupportedSet == {supported[k] : k \in 1..Len(supported)}

\* The entry of the supported list right after v (v supported, not the last).
Following(v) == supported[(CHOOSE k \in 1..Len(supported) : supported[k] = v) + 1]

\* package.json and the ts<version> directories have been read.
PackageRead == packageJson.minimumTypeScriptVersion # undefined

DeclaredMinimum == packageJson.minimumTypeScriptVersion

EffectiveMinimum ==
  IF Num(DeclaredMinimum) >= Num(lowest) THEN DeclaredMinimum ELSE lowest

SingleMode == PackageRead /\ (args.onlyTestTsNext \/ args.tsLocal)
FullMode == PackageRead /\ ~args.onlyTestTsNext /\ ~args.tsLocal

NumCutoffs == Len(typesVersions)

\* The cutoffs the declared minimum is numerically greater than.
Exceeded ==
  {typesVersions[j] : j \in {k \in 1..NumCutoffs : Num(DeclaredMinimum) > Num(typesVersions[k])}}

\* A range check threw (tsconfig or lint errors), which ends the run.
CheckThrew ==
  /\ result.kind = "throw"
  /\ result.error \in {Error(<<"tsconfig errors">>), Error(<<"lint error">>)}

\* The run is over, or at the attw step, and no range check threw.
RangesOver == pc = "attw" \/ (pc = "done" /\ ~CheckThrew)

\* High and low of the j-th range of the plan of n+1 ranges.
PlanHigh(j) == IF j <= NumCutoffs THEN typesVersions[j] ELSE latest
PlanLow(j) ==
  IF j = 1 THEN EffectiveMinimum
  ELSE LET after == Following(PlanHigh(j - 1))
       IN  IF Num(EffectiveMinimum) >= Num(after) THEN EffectiveMinimum ELSE after

\* The j-th issued check is the j-th range of the plan; it neither overlaps
\* the previous range nor leaves a gap after it.
MatchesPlan(j) ==
  /\ checks[j].hiVersion = PlanHigh(j)
  /\ checks[j].lowVersion = PlanLow(j)
  /\ j > 1 => /\ Num(checks[j].lowVersion) > Num(checks[j - 1].hiVersion)
              /\ \/ checks[j].lowVersion = Following(checks[j - 1].hiVersion)
                 \/ checks[j].lowVersion = EffectiveMinimum

C1_Case ==
  /\ FullMode
  /\ NumCutoffs > 0
  /\ Num(DeclaredMinimum) <= Num(typesVersions[1])

----------------------------------------------------------------------------
(* C1 *)

\* C1 as stated: in full mode, for every non-empty strictly increasing list of
\* supported cutoffs and every declared minimum not above c1, a run whose
\* range checks do not throw has issued exactly n+1 checks, the j-th being the
\* j-th range of the plan and the last one having isLatest = true.
C1_Original ==
  (C1_Case /\ RangesOver) =>
    /\ Len(checks) = NumCutoffs + 1
    /\ \A j \in 1..Len(checks) : MatchesPlan(j)
    /\ checks[Len(checks)].isLatest

\* C1, amended: the same, for cutoff lists whose last entry is not the latest
\* supported version; the checks issued so far are always a prefix of the plan
\* of n+1 ranges, and all n+1 have been issued, the last with isLatest = true,
\* once the range loop is over without a check having thrown.
C1_Plan ==
  (C1_Case /\ typesVersions[NumCutoffs] # latest) =>
    /\ Len(checks) <= NumCutoffs + 1
    /\ \A j \in 1..Len(checks) : MatchesPlan(j)
    /\ RangesOver => /\ Len(checks) = NumCutoffs + 1
                     /\ checks[Len(checks)].isLatest

C1_Witness ==
  /\ C1_Case
  /\ typesVersions[NumCutoffs] # latest
  /\ NumCutoffs = 2
  /\ pc = "attw"
  /\ Len(checks) = 3

----------------------------------------------------------------------------
(* C2, C3, C9: the attw switch *)

Parts(seq) == {seq[k] : k \in 1..Len(seq)}

\* The attw step ran and the status it saw is one of the three of the type.
AttwRan == pc = "done" /\ attw.status \in {"pass", "fail", "error"}

Rejected == result.kind = "throw"
Accepted == result.kind = "return"
Silent == result = Return(undefined)

\* C2: with a boolean expectation flag and an outcome in {pass, fail, error}
\* the result is the one of the table: (expected, error) and (not expected,
\* pass) accept without a message; (expected, fail) accepts with a message
\* holding the ignoring reason and the raw output; (expected, pass) rejects
\* asking to remove the entry; (not expected, error or fail) rejects with the
\* raw output.
C2_Table ==
  (AttwRan /\ attw.expectError \in {"true", "false"}) =>
    /\ (attw.expectError = "true" /\ attw.status = "error") => Silent
    /\ (attw.expectError = "true" /\ attw.status = "fail") =>
         /\ Accepted
         /\ result.value # undefined
         /\ {"Ignoring attw failure because", dirName, output} \subseteq Parts(result.value)
    /\ (attw.expectError = "true" /\ attw.status = "pass") =>
         /\ Rejected
         /\ {"attw passed: remove", dirName} \subseteq Parts(result.error.parts)
    /\ (attw.expectError = "false" /\ attw.status \in {"error", "fail"}) =>
         /\ Rejected
         /\ output \in Parts(result.error.parts)
    /\ (attw.expectError = "false" /\ attw.status = "pass") => Silent

C2_Witness ==
  /\ AttwRan
  /\ attw = [expectError |-> "true", status |-> "fail"]
  /\ Accepted
  /\ output \in Parts(result.value)

\* C3: for both values of the expectation flag, an outcome outside
\* {pass, fail, error} makes the run fail with the unreachable-case error.
C3_Unreachable ==
  (pc = "done" /\ attw.status = "other" /\ attw.expectError \in {"true", "false"}) =>
    /\ Rejected
    /\ "unreachable case" \in Parts(result.error.parts)

\* C9: when attw is run, the run ends with neither an error nor a message only
\* for (listed, error) and (not listed, pass), whatever the lookup in the
\* allow-list gives; a fail or error outcome of a package that is not listed is
\* always rejected.
C9_NoSilentAccept ==
  AttwRan =>
    /\ Silent => \/ (attw.expectError = "true" /\ attw.status = "error")
                 \/ (attw.expectError = "false" /\ attw.status = "pass")
    /\ (attw.expectError # "true" /\ attw.status \in {"fail", "error"}) => Rejected

----------------------------------------------------------------------------
(* C4, C5, C6: configuration errors *)

\* Lines 158-160 have been executed in full mode.
Planned == FullMode /\ pc # "versions"

\* C4: each lookup next(c) made for the plan gives the supported version right
\* after c, and the lookup of a cutoff that is absent from the supported list
\* or is its last entry fails the run with a configuration error.
C4_NextOrError ==
  Planned =>
    IF \E j \in 1..NumCutoffs : typesVersions[j] \notin SupportedSet \/ typesVersions[j] = latest
      THEN result = Throw(NextAssertionError)
      ELSE \A j \in 1..NumCutoffs : lows[j + 1] = Following(typesVersions[j])

\* C5: in full mode, when the declared minimum is numerically greater than
\* some cutoff, no range check is issued for the directory of such a cutoff,
\* the run never gets to a check, and it ends with the configuration error that
\* names the directory ts<cutoff> of a cutoff the minimum exceeds.
C5_SkippedFolder ==
  (FullMode /\ Exceeded # {}) =>
    /\ \A k \in 1..Len(checks) : checks[k].hiVersion \notin Exceeded
    /\ pc \in {"versions", "range", "done"}
    /\ pc = "done" =>
         /\ Rejected
         /\ result.error.name = "AssertionError"
         /\ "skips" \in DOMAIN result.error
         /\ result.error.skips.ts \in Exceeded

C5_Witness ==
  /\ FullMode
  /\ NumCutoffs = 2
  /\ Cardinality(Exceeded) = 1
  /\ pc = "done"
  /\ result = Throw(AssertionError(DeclaredMinimum, typesVersions[1]))

\* Some range of the plan has a configuration error: a cutoff has no following
\* supported version, or the effective minimum is above the high of a range.
Misconfigured ==
  \/ \E j \in 1..NumCutoffs : typesVersions[j] = latest
  \/ \E j \in 1..NumCutoffs : Num(EffectiveMinimum) > Num(typesVersions[j])

\* C6: in full mode, when some range of the plan has a configuration error, no
\* range check is ever issued.
C6_NoCheckOfBadPlan == (FullMode /\ Misconfigured) => checks = <<>>

----------------------------------------------------------------------------
(* C7, C8: one range *)

\* C7: with onlyTestTsNext or a local TypeScript, for any cutoffs and minimum,
\* there is exactly one range check, at the package root, with low = high =
\* "local" (local path) or the latest version, isLatest = true; no next-version
\* lookup and no high >= low assertion is evaluated.
C7_SingleVersion ==
  SingleMode =>
    LET v == IF args.tsLocal THEN local ELSE latest
    IN  /\ nextCalls = 0
        /\ asserts = 0
        /\ Len(checks) <= 1
        /\ pc \in {"testing", "attw", "done"} =>
             checks = <<[dirPath |-> dirPath, lowVersion |-> v, hiVersion |-> v,
                         tsLocal |-> args.tsLocal, isLatest |-> TRUE]>>

C7_Witness ==
  /\ SingleMode
  /\ args.tsLocal
  /\ ~args.onlyTestTsNext
  /\ NumCutoffs = 2
  /\ Exceeded # {}
  /\ pc = "attw"
  /\ Len(checks) = 1

\* C8: in full mode without cutoffs there is exactly one range check, at the
\* package root, from the effective minimum to the latest version, with
\* isLatest = true; the effective minimum is the numerically larger of the
\* declared minimum and the lowest supported version, so low is never below
\* the lowest supported version.
C8_NoCutoffs ==
  (FullMode /\ NumCutoffs = 0) =>
    /\ Len(checks) <= 1
    /\ pc \in {"testing", "attw", "done"} =>
         /\ checks = <<[dirPath |-> dirPath, lowVersion |-> EffectiveMinimum,
                        hiVersion |-> latest, tsLocal |-> FALSE, isLatest |-> TRUE]>>
         /\ Num(checks[1].lowVersion) >= Num(lowest)
         /\ Num(checks[1].lowVersion) >= Num(DeclaredMinimum)

C8_Witness ==
  /\ FullMode
  /\ NumCutoffs = 0
  /\ Num(DeclaredMinimum) < Num(lowest)
  /\ pc = "attw"
  /\ Len(checks) = 1
  /\ checks[1].lowVersion = lowest

----------------------------------------------------------------------------
(* C10: listen mode *)

Messages == 1..MaxMessages

Replies(p) == {k \in 1..Len(sent) : sent[k].path = p}

\* No run has started unless the installation completed; a message has at
\* most one reply, sent after its own run settled, with status "OK" exactly
\* when that run succeeded and the error of that run otherwise.
C10_Safety ==
  /\ \A p \in Messages :
       msg[p] \in {"running", "settled", "replied"} => install = "resolved"
  /\ \A p \in Messages :
       /\ Cardinality(Replies(p)) <= 1
       /\ Replies(p) # {} <=> msg[p] = "replied"
  /\ \A k \in 1..Len(sent) :
       /\ runResult[sent[k].path] # "none"
       /\ sent[k].status = "OK" <=> runResult[sent[k].path] = "fulfilled"
       /\ sent[k].status # "OK" => sent[k].status = runResult[sent[k].path]

====
